---- MODULE Spec2Model ----
(***************************************************************************)
(* The OpenStack cloud provider: instance lookup by name and by address,   *)
(* address extraction from the weakly typed address blob, address          *)
(* selection, and the resolution of the local instance id at construction. *)
(* Text is modelled as sequences of one-character strings, so that         *)
(* quoting, matching and trimming are computed character by character.     *)
(***************************************************************************)
EXTENDS Integers, Sequences, FiniteSets, Bags, TLC

(* ------------------------------ bounds --------------------------------- *)
\* most pages one listing is split into
MaxPages == 2
\* most servers the cloud holds
MaxServers == 3

(* ------------------------------ errors --------------------------------- *)
NoErr == "nil"
ErrNotFound == "ErrNotFound"
ErrMultipleResults == "ErrMultipleResults"
ErrNoAddressFound == "ErrNoAddressFound"
\* a page that cannot be fetched (pager) or extracted (servers.ExtractServers)
ErrFetch == "ErrFetch"
ErrExtract == "ErrExtract"

(* --------------------------- generic helpers --------------------------- *)
RECURSIVE SelectSeqOf(_, _)
\* the members of set S as the sequences that list each of them once
SelectSeqOf(S, n) ==
  IF n = 0 THEN {<<>>}
  ELSE {<<x>> \o t : x \in S, t \in SelectSeqOf(S, n - 1)}

Injective(s) == \A i, j \in DOMAIN s : s[i] = s[j] => i = j

Perms(S) == {s \in SelectSeqOf(S, Cardinality(S)) : Injective(s)}

(* ------------------------ the address blob ----------------------------- *)
\* A JSON value as Go decodes it into interface{}: a string, a list, a map,
\* or something else (a number, null).
Str(s) == [t |-> "str", s |-> s]
Other == [t |-> "other"]
List(l) == [t |-> "list", l |-> l]
Map(m) == [t |-> "map", m |-> m]

Props(addr, iptype) == Map([k \in {"addr", "OS-EXT-IPS:type"} |->
                             IF k = "addr" THEN Str(addr) ELSE Str(iptype)])
Fixed(addr) == Props(addr, "fixed")
Floating(addr) == Props(addr, "floating")
\* descriptors with a missing or wrongly typed field
NoAddrProps == Map([k \in {"OS-EXT-IPS:type"} |-> Str("fixed")])
NoTypeProps == Map([k \in {"addr"} |-> Str("10.0.0.3")])
NumAddrProps == Map([k \in {"addr", "OS-EXT-IPS:type"} |->
                      IF k = "addr" THEN Other ELSE Str("fixed")])
NumTypeProps == Map([k \in {"addr", "OS-EXT-IPS:type"} |->
                      IF k = "addr" THEN Str("10.0.0.3") ELSE Other])

Net1(l) == Map([k \in {"net1"} |-> l])
Net2(l1, l2) == Map([k \in {"net1", "net2"} |-> IF k = "net1" THEN l1 ELSE l2])

MapKeys(blob) == IF blob.t = "map" THEN DOMAIN blob.m ELSE {}
\* the orders in which Go may range over the blob's networks
IterOrders(blob) == Perms(MapKeys(blob))

(* ----------------------------- findAddrs ------------------------------- *)
\* the loop body gone wrong: every entry of the list is looked at, not only
\* list[0]
RECURSIVE NetAddrsAnyEntry(_, _)
NetAddrsAnyEntry(listblob, iptype) ==
  IF listblob.t # "list" \/ Len(listblob.l) < 1 THEN <<>>
  ELSE LET props == listblob.l[1]
           rest == NetAddrsAnyEntry(List(Tail(listblob.l)), iptype)
       IN
    IF props.t # "map" THEN rest
    ELSE IF "addr" \notin DOMAIN props.m THEN rest
    ELSE IF props.m["addr"].t # "str" THEN rest
    ELSE IF "OS-EXT-IPS:type" \notin DOMAIN props.m THEN rest
    ELSE IF props.m["OS-EXT-IPS:type"].t # "str" THEN rest
    ELSE IF props.m["OS-EXT-IPS:type"].s = iptype THEN <<props.m["addr"].s>> \o rest
    ELSE rest

\* One round of the loop of findAddrs: what the network whose value is
\* listblob appends to ret.  Only list[0] is looked at.
NetAddrs(listblob, iptype) ==
  IF listblob.t # "list" \/ Len(listblob.l) < 1 THEN <<>>
  ELSE LET props == listblob.l[1] IN
    IF props.t # "map" THEN <<>>
    ELSE IF "addr" \notin DOMAIN props.m THEN <<>>
    ELSE IF props.m["addr"].t # "str" THEN <<>>
    ELSE IF "OS-EXT-IPS:type" \notin DOMAIN props.m THEN <<>>
    ELSE IF props.m["OS-EXT-IPS:type"].t # "str" THEN <<>>
    ELSE IF props.m["OS-EXT-IPS:type"].s = iptype THEN <<props.m["addr"].s>>
    ELSE <<>>

RECURSIVE FindAddrsLoop(_, _, _)
\* the range loop over the networks, visited in the given order
FindAddrsLoop(networks, iptype, order) ==
  IF order = <<>> THEN <<>>
  ELSE NetAddrs(networks[Head(order)], iptype)
         \o FindAddrsLoop(networks, iptype, Tail(order))

\* findAddrs(netblob, iptype); order is the order in which this call's range
\* over the map visits the networks (<<>> when netblob is not a map)
FindAddrs(netblob, iptype, order) ==
  IF netblob.t # "map" THEN <<>> ELSE FindAddrsLoop(netblob.m, iptype, order)

(* ------------------------------ servers -------------------------------- *)
NameAB == <<"a", ".", "b">>
NameAXB == <<"a", "x", "b">>

Server(id, name, status, addresses, v4, v6) ==
  [ID |-> id, Name |-> name, Status |-> status, Addresses |-> addresses,
   AccessIPv4 |-> v4, AccessIPv6 |-> v6]

\* the servers the cloud may hold
ServerPool ==
  { Server(1, NameAB, "ACTIVE",
           Net2(List(<<Fixed("10.0.0.1"), Fixed("10.0.0.9")>>),
                List(<<Floating("1.2.3.4")>>)), "1.2.3.4", ""),
    Server(2, NameAXB, "ACTIVE",
           Net2(List(<<Fixed("10.0.0.1")>>), List(<<Fixed("10.0.0.1")>>)), "", ""),
    Server(3, NameAB, "ACTIVE",
           Net2(List(<<Floating("1.2.3.4")>>), List(<<NoAddrProps>>)),
           "5.6.7.8", "::1"),
    Server(4, NameAB, "SHUTOFF", Net1(List(<<Fixed("10.0.0.1")>>)), "", ""),
    Server(5, NameAXB, "ACTIVE",
           Net2(List(<<Fixed("10.0.0.2")>>), List(<<Fixed("")>>)), "", "::1"),
    Server(6, NameAB, "ACTIVE", Other, "", ""),
    Server(7, NameAXB, "ACTIVE", Net1(List(<<>>)), "5.6.7.8", "") }

\* the ways the pager may cut a list of n servers into pages: the number of
\* servers on each page (a page may be empty)
Cuts(n) ==
  {c \in UNION {[1..p -> 0..n] : p \in 1..MaxPages} :
     LET RECURSIVE Sum(_)
         Sum(i) == IF i = 0 THEN 0 ELSE c[i] + Sum(i - 1)
     IN Sum(Len(c)) = n}

RECURSIVE Paginate(_, _)
Paginate(servers, cut) ==
  IF cut = <<>> THEN <<>>
  ELSE <<SubSeq(servers, 1, Head(cut))>>
         \o Paginate(SubSeq(servers, Head(cut) + 1, Len(servers)), Tail(cut))

\* every paged list of distinct servers the compute service may hold
Clouds ==
  UNION {{Paginate(s, c) : c \in Cuts(Len(s))} :
            s \in UNION {{q \in SelectSeqOf(ServerPool, n) : Injective(q)} :
                            n \in 0..MaxServers}}

(* ------------------ the compute service's list filter ------------------ *)
MetaChars == {"\\", ".", "+", "*", "?", "(", ")", "|", "[", "]", "{", "}", "^", "$"}

RECURSIVE QuoteMeta(_)
\* regexp.QuoteMeta: a backslash before every metacharacter
QuoteMeta(s) ==
  IF s = <<>> THEN <<>>
  ELSE (IF Head(s) \in MetaChars THEN <<"\\", Head(s)>> ELSE <<Head(s)>>)
         \o QuoteMeta(Tail(s))

RECURSIVE MatchHere(_, _)
\* whether the pattern matches a prefix of s (the whole of s before "$")
MatchHere(pat, s) ==
  IF pat = <<>> THEN TRUE
  ELSE IF pat = <<"$">> THEN s = <<>>
  ELSE IF Head(pat) = "\\" /\ Len(pat) >= 2
    THEN s # <<>> /\ Head(s) = pat[2] /\ MatchHere(SubSeq(pat, 3, Len(pat)), Tail(s))
  ELSE IF Head(pat) = "."
    THEN s # <<>> /\ MatchHere(Tail(pat), Tail(s))
  ELSE s # <<>> /\ Head(s) = Head(pat) /\ MatchHere(Tail(pat), Tail(s))

\* the name filter of the list call: a regular expression searched for in
\* the server's name; no filter when the pattern is empty
NameMatches(pat, s) ==
  IF pat = <<>> THEN TRUE
  ELSE IF Head(pat) = "^" THEN MatchHere(Tail(pat), s)
  ELSE \E i \in 1..(Len(s) + 1) : MatchHere(pat, SubSeq(s, i, Len(s)))

RECURSIVE FilterPage(_, _)
FilterPage(page, opts) ==
  IF page = <<>> THEN <<>>
  ELSE (IF Head(page).Status = opts.Status /\ NameMatches(opts.Name, Head(page).Name)
          THEN <<Head(page)>> ELSE <<>>) \o FilterPage(Tail(page), opts)

\* servers.List(client, opts): the pages of the servers that pass the filter
ListPages(cld, opts) == [i \in DOMAIN cld |-> FilterPage(cld[i], opts)]

(* --------------------------- findInstances ----------------------------- *)
\* what the page callback of a listing gives back to the pager, with the
\* list it has built so far; panic: the callback did not return
Handled(ok, err, list) == [ok |-> ok, err |-> err, list |-> list, panic |-> FALSE]
Panicked(list) == [ok |-> FALSE, err |-> NoErr, list |-> list, panic |-> TRUE]
\* a fetched page: the servers on it, or a body ExtractServers rejects
Page(servers, extractErr) == [s |-> servers, extractErr |-> extractErr]

FindOpts(name_filter) == [Name |-> name_filter, Status |-> "ACTIVE"]

FindPage(names, page) ==
  IF page.extractErr THEN Handled(FALSE, ErrExtract, names)
  ELSE Handled(TRUE, NoErr, names \o [i \in DOMAIN page.s |-> page.s[i].Name])

\* the return gone wrong: the names read before the failure are handed out
FindReturnPartial(err, names) ==
  IF err # NoErr THEN [nil |-> names = <<>>, names |-> names, err |-> err]
  ELSE [nil |-> FALSE, names |-> names, err |-> NoErr]

\* the value findInstances returns: (nil, err) or (ret, nil)
FindReturn(err, names) ==
  IF err # NoErr THEN [nil |-> TRUE, names |-> <<>>, err |-> err]
  ELSE [nil |-> FALSE, names |-> names, err |-> NoErr]

(* -------------------------- getServerByName ---------------------------- *)
\* the options gone wrong: the name is anchored but not quoted
ByNameOptsUnquoted(nm) == [Name |-> <<"^">> \o nm \o <<"$">>, Status |-> "ACTIVE"]

ByNameOpts(nm) == [Name |-> <<"^">> \o QuoteMeta(nm) \o <<"$">>, Status |-> "ACTIVE"]

\* the callback gone wrong: it never stops the pager on a second match
ByNamePageNoAbort(list, page) ==
  IF page.extractErr THEN Handled(FALSE, ErrExtract, list)
  ELSE Handled(TRUE, NoErr, list \o page.s)

ByNamePage(list, page) ==
  IF page.extractErr THEN Handled(FALSE, ErrExtract, list)
  ELSE LET l == list \o page.s IN
    IF Len(l) > 1 THEN Handled(FALSE, ErrMultipleResults, l)
    ELSE Handled(TRUE, NoErr, l)

\* the value an exact lookup returns once the pager is through: (nil, err)
\* or (&serverList[0], nil)
OneServer(err, list) ==
  IF err # NoErr THEN [nil |-> TRUE, srv |-> <<>>, err |-> err]
  ELSE IF Len(list) = 0 THEN [nil |-> TRUE, srv |-> <<>>, err |-> ErrNotFound]
  ELSE IF Len(list) > 1 THEN [nil |-> TRUE, srv |-> <<>>, err |-> ErrMultipleResults]
  ELSE [nil |-> FALSE, srv |-> <<list[1]>>, err |-> NoErr]

ByNameReturn(err, list) == OneServer(err, list)

(* ------------------------- getServerByAddress -------------------------- *)
ByAddressOpts == [Name |-> <<>>, Status |-> "ACTIVE"]

\* the orders in which the calls of findAddrs on the servers of one page may
\* range over their address maps, one order for each server
RECURSIVE PageOrders(_)
PageOrders(servers) ==
  IF servers = <<>> THEN {<<>>}
  ELSE {<<o>> \o t : o \in IterOrders(Head(servers).Addresses),
                     t \in PageOrders(Tail(servers))}

\* the first element of findAddrs' result, taken without a length check:
\* <<addr>>, or <<>> where the index is out of range
FirstFixed(server, order) ==
  LET found == FindAddrs(server.Addresses, "fixed", order)
  IN IF Len(found) >= 1 THEN <<found[1]>> ELSE <<>>

RECURSIVE ByAddressLoop(_, _, _, _)
ByAddressLoop(list, servers, addr, orders) ==
  IF servers = <<>> THEN Handled(TRUE, NoErr, list)
  ELSE LET first == FirstFixed(Head(servers), Head(orders)) IN
    IF first = <<>> THEN Panicked(list)
    ELSE ByAddressLoop(IF first[1] = addr THEN Append(list, Head(servers)) ELSE list,
                       Tail(servers), addr, Tail(orders))

ByAddressPage(list, page, addr, orders) ==
  IF page.extractErr THEN Handled(FALSE, ErrExtract, list)
  ELSE ByAddressLoop(list, page.s, addr, orders)

ByAddressReturn(err, list) == OneServer(err, list)

(* ------------------ getAddressByName and NodeAddresses ----------------- *)
\* the selection gone wrong: the floating address is tried before the fixed
GetAddressFloatingFirst(srv, fixedOrder, floatingOrder) ==
  LET floating == FindAddrs(srv.Addresses, "floating", floatingOrder)
      s1 == IF Len(floating) >= 1 THEN floating[1] ELSE ""
      fixed == FindAddrs(srv.Addresses, "fixed", fixedOrder)
      s2 == IF s1 # "" THEN s1 ELSE IF Len(fixed) >= 1 THEN fixed[1] ELSE ""
      s3 == IF s2 # "" THEN s2 ELSE srv.AccessIPv4
      s4 == IF s3 # "" THEN s3 ELSE srv.AccessIPv6
  IN IF s4 = "" THEN [addr |-> "", err |-> ErrNoAddressFound]
     ELSE [addr |-> s4, err |-> NoErr]

\* the address selection of getAddressByName on the server found
GetAddress(srv, fixedOrder, floatingOrder) ==
  LET fixed == FindAddrs(srv.Addresses, "fixed", fixedOrder)
      s1 == IF Len(fixed) >= 1 THEN fixed[1] ELSE ""
      floating == FindAddrs(srv.Addresses, "floating", floatingOrder)
      s2 == IF s1 # "" THEN s1 ELSE IF Len(floating) >= 1 THEN floating[1] ELSE ""
      s3 == IF s2 # "" THEN s2 ELSE srv.AccessIPv4
      s4 == IF s3 # "" THEN s3 ELSE srv.AccessIPv6
  IN IF s4 = "" THEN [addr |-> "", err |-> ErrNoAddressFound]
     ELSE [addr |-> s4, err |-> NoErr]

NodeAddress(type, address) == [Type |-> type, Address |-> address]

RECURSIVE AddToNodeAddresses(_, _)
\* api.AddToNodeAddresses: appends each of add that is not yet in addresses
AddToNodeAddresses(addresses, add) ==
  IF add = <<>> THEN addresses
  ELSE AddToNodeAddresses(
         IF \E i \in DOMAIN addresses : addresses[i] = Head(add)
           THEN addresses ELSE Append(addresses, Head(add)),
         Tail(add))

\* the list NodeAddresses builds for the server found
BuildNodeAddresses(srv, fixedOrder, floatingOrder) ==
  LET fixed == FindAddrs(srv.Addresses, "fixed", fixedOrder)
      floating == FindAddrs(srv.Addresses, "floating", floatingOrder)
      a1 == [i \in DOMAIN fixed |-> NodeAddress("InternalIP", fixed[i])]
      a2 == a1 \o [i \in DOMAIN floating |-> NodeAddress("ExternalIP", floating[i])]
  IN AddToNodeAddresses(a2, <<NodeAddress("ExternalIP", srv.AccessIPv6),
                              NodeAddress("ExternalIP", srv.AccessIPv4)>>)

(* --------------------------- readInstanceID ---------------------------- *)
StatusOK == 200
StatusNotFound == 404
ErrAuth == "ErrAuth"
ErrHttpGet == "ErrHttpGet"
ErrStatus == "ErrStatus"
ErrReadBody == "ErrReadBody"
ErrJson == "ErrJson"
ErrEmptyUUID == "ErrEmptyUUID"
ErrNetwork == "ErrNetwork"
ErrCompute == "ErrCompute"

WhiteSpace == {" ", "\t", "\n", "\r"}

RECURSIVE TrimLeft(_)
TrimLeft(s) == IF s # <<>> /\ Head(s) \in WhiteSpace THEN TrimLeft(Tail(s)) ELSE s

RECURSIVE TrimRight(_)
TrimRight(s) ==
  IF s # <<>> /\ s[Len(s)] \in WhiteSpace THEN TrimRight(SubSeq(s, 1, Len(s) - 1)) ELSE s

\* strings.TrimSpace
TrimSpace(s) == TrimRight(TrimLeft(s))

\* the contents the marker file may have
FileContents ==
  { <<>>, <<" ", "\n">>, <<" ", " ", "a", "b", "c", "\n">>, <<"a", " ", "b">> }
\* what ioutil.ReadFile may give: the content, or an error
FileReads ==
  {[ok |-> TRUE, content |-> c] : c \in FileContents}
    \cup {[ok |-> FALSE, content |-> <<>>]}

\* a JSON document: not well formed, or an object given as its members in
\* the order they are written
Json(members) == [valid |-> TRUE, members |-> members]
BadJson == [valid |-> FALSE, members |-> <<>>]
Member(k, v) == [k |-> k, v |-> v]
UuidXYZ == <<"x", "y", "z">>

MetadataBodies ==
  { BadJson,
    Json(<<>>),
    Json(<<Member("uuid", Str(UuidXYZ))>>),
    Json(<<Member("name", Str(<<"n">>)), Member("UUID", Str(UuidXYZ))>>),
    Json(<<Member("name", Str(<<"n">>))>>),
    Json(<<Member("uuid", Str(<<>>))>>),
    Json(<<Member("uuid", Other)>>),
    Json(<<Member("uuid", Str(UuidXYZ)), Member("Uuid", Str(<<>>))>>) }

\* what http.Get(metadataUrl) and the read of its body may give
HttpResponses ==
  [getErr : BOOLEAN, status : {StatusOK, StatusNotFound}, readErr : BOOLEAN,
   body : MetadataBodies]

\* the struct field a JSON member name is decoded into: encoding/json
\* matches the field UUID whatever the case of the letters
FieldOf(k) == IF k \in {"uuid", "UUID", "Uuid"} THEN "UUID" ELSE "none"

RECURSIVE Unmarshal(_, _)
\* json.Unmarshal into struct{ UUID string }, member after member; obj is
\* the struct so far and the first error met
Unmarshal(members, obj) ==
  IF members = <<>> THEN obj
  ELSE LET m == Head(members) IN
    Unmarshal(Tail(members),
      IF FieldOf(m.k) # "UUID" THEN obj
      ELSE IF m.v.t = "str" THEN [obj EXCEPT !.UUID = m.v.s]
      ELSE [obj EXCEPT !.err = IF @ = NoErr THEN ErrJson ELSE @])

ParseMetadataUUID(jsonData) ==
  IF ~jsonData.valid THEN [id |-> <<>>, err |-> ErrJson]
  ELSE LET obj == Unmarshal(jsonData.members, [UUID |-> <<>>, err |-> NoErr]) IN
    IF obj.err # NoErr THEN [id |-> <<>>, err |-> obj.err]
    ELSE IF obj.UUID = <<>> THEN [id |-> <<>>, err |-> ErrEmptyUUID]
    ELSE [id |-> obj.UUID, err |-> NoErr]

\* the file attempt gone wrong: the content is returned as read, empty or not
ReadLocalFileUntrimmed(read) ==
  IF read.ok
    THEN [go |-> FALSE, id |-> read.content, err |-> NoErr]
    ELSE [go |-> TRUE, id |-> <<>>, err |-> NoErr]

\* readInstanceID up to the end of the attempt on the local file: the value
\* it returns there, or go |-> TRUE to go on to the metadata server
ReadLocalFile(read) ==
  LET instanceID == TrimSpace(read.content) IN
  IF read.ok /\ instanceID # <<>>
    THEN [go |-> FALSE, id |-> instanceID, err |-> NoErr]
    ELSE [go |-> TRUE, id |-> <<>>, err |-> NoErr]

\* readInstanceID from http.Get on: the value it returns
ReadMetadata(resp) ==
  IF resp.getErr THEN [id |-> <<>>, err |-> ErrHttpGet]
  ELSE IF resp.status # StatusOK THEN [id |-> <<>>, err |-> ErrStatus]
  ELSE IF resp.readErr THEN [id |-> <<>>, err |-> ErrReadBody]
  ELSE ParseMetadataUUID(resp.body)

\* the construction gone wrong: a failure of readInstanceID is returned
ConstructStrict(r, networkOK, computeOK) ==
  IF r.err # NoErr THEN [nil |-> TRUE, localInstanceID |-> <<>>, err |-> r.err]
  ELSE IF ~networkOK THEN [nil |-> TRUE, localInstanceID |-> <<>>, err |-> ErrNetwork]
  ELSE IF ~computeOK THEN [nil |-> TRUE, localInstanceID |-> <<>>, err |-> ErrCompute]
  ELSE [nil |-> FALSE, localInstanceID |-> r.id, err |-> NoErr]

\* newOpenStack from the return of readInstanceID on: r is what it returned
\* (its error is only logged), then the two endpoints, then the provider
Construct(r, networkOK, computeOK) ==
  IF ~networkOK THEN [nil |-> TRUE, localInstanceID |-> <<>>, err |-> ErrNetwork]
  ELSE IF ~computeOK THEN [nil |-> TRUE, localInstanceID |-> <<>>, err |-> ErrCompute]
  ELSE [nil |-> FALSE, localInstanceID |-> r.id, err |-> NoErr]

(* ------------------------------- state --------------------------------- *)
VARIABLES
  pc,          \* where the running call is: "idle", "paging", "paged",
               \* "readFile", "httpGet", "endpoints", "done"
  op,          \* the operation called
  name,        \* its name argument (a name, or the filter of findInstances)
  ip,          \* its address argument
  cloud,       \* the servers of the compute service, page by page
  pages,       \* the pages servers.List gives for the call's options
  pageIdx,     \* the number of pages the pager has requested
  requests,    \* for each page, how many times it has been requested
  serverList,  \* the callback's serverList
  ret,         \* the callback's ret (findInstances)
  pagerErr,    \* the error EachPage returned
  mapOrders,   \* the map iteration orders of the two findAddrs calls made
               \* on the server found
  fa,          \* a call of findAddrs: its arguments, map order and result
  file,        \* what reading the marker file gave
  http,        \* what the metadata server answered
  httpGets,    \* the number of GET requests sent to the metadata server
  rid,         \* what readInstanceID returned
  svc,         \* which of the identity, network and compute services answered
  result       \* what the operation returned

listVars == <<cloud, pages, pageIdx, requests, serverList, ret, pagerErr>>
idVars == <<file, http, httpGets, rid, svc>>
vars == <<pc, op, name, ip, listVars, mapOrders, fa, idVars, result>>

\* the value returned, with every field an operation does not set at rest
NoResult ==
  [err |-> NoErr, nil |-> TRUE, srv |-> <<>>, names |-> <<>>, addr |-> "",
   addrs |-> <<>>, id |-> <<>>, panic |-> FALSE]

\* the arguments the operations are called with
Names == {NameAB, NameAXB}
Filters == {<<>>, NameAB, <<"x">>}
Addrs == {"10.0.0.1", "10.0.0.2"}

ListBlobs ==
  { Other, List(<<>>), List(<<Other>>),
    List(<<Fixed("10.0.0.1")>>), List(<<Floating("1.2.3.4")>>),
    List(<<Floating("1.2.3.4"), Fixed("10.0.0.1")>>),
    List(<<NoAddrProps, Fixed("10.0.0.1")>>), List(<<NoTypeProps>>),
    List(<<NumAddrProps>>), List(<<NumTypeProps>>) }
\* the address blobs findAddrs is called on
NetBlobs ==
  {Other} \cup {Map(m) : m \in UNION {[K -> ListBlobs] : K \in SUBSET {"net1", "net2"}}}

Init ==
  /\ pc = "idle"
  /\ op = "none"
  /\ name = <<>>
  /\ ip = ""
  /\ cloud = <<>>
  /\ pages = <<>>
  /\ pageIdx = 0
  /\ requests = <<>>
  /\ serverList = <<>>
  /\ ret = <<>>
  /\ pagerErr = NoErr
  /\ mapOrders = <<>>
  /\ fa = [netblob |-> Other, iptype |-> "", order |-> <<>>, ret |-> <<>>]
  /\ file = [ok |-> FALSE, content |-> <<>>]
  /\ http = [getErr |-> FALSE, status |-> StatusOK, readErr |-> FALSE, body |-> BadJson]
  /\ httpGets = 0
  /\ rid = [id |-> <<>>, err |-> NoErr]
  /\ svc = [auth |-> FALSE, network |-> FALSE, compute |-> FALSE]
  /\ result = NoResult

(* ------------------------------ listings ------------------------------- *)
NameOps == {"getServerByName", "getAddressByName", "NodeAddresses"}

\* servers.List(client, opts) and the start of pager.EachPage
StartListing(o, nm, addr, opts) ==
  /\ pc = "idle"
  /\ \E c \in Clouds :
       /\ cloud' = c
       /\ pages' = ListPages(c, opts)
       /\ requests' = [i \in DOMAIN c |-> 0]
  /\ op' = o
  /\ name' = nm
  /\ ip' = addr
  /\ pc' = "paging"
  /\ UNCHANGED <<pageIdx, serverList, ret, pagerErr, mapOrders, fa, idVars, result>>

CallFindInstances ==
  \E f \in Filters : StartListing("findInstances", f, "", FindOpts(f))

CallGetServerByName ==
  \E o \in NameOps, n \in Names : StartListing(o, n, "", ByNameOpts(n))

CallGetServerByAddress ==
  \E a \in Addrs : StartListing("getServerByAddress", <<>>, a, ByAddressOpts)

\* EachPage requests the next page and the request fails: it returns the
\* error without calling the callback
FetchFail ==
  /\ pc = "paging"
  /\ requests' = [requests EXCEPT ![pageIdx + 1] = @ + 1]
  /\ pageIdx' = pageIdx + 1
  /\ pagerErr' = ErrFetch
  /\ pc' = "paged"
  /\ UNCHANGED <<op, name, ip, cloud, pages, serverList, ret, mapOrders, fa, idVars, result>>

\* EachPage requests the next page, calls the callback, which returns r,
\* and goes on to the next page, stops, or is unwound by a panic
EachPage(r) ==
  /\ requests' = [requests EXCEPT ![pageIdx + 1] = @ + 1]
  /\ pageIdx' = pageIdx + 1
  /\ IF r.panic
       THEN /\ pc' = "done"
            /\ result' = [NoResult EXCEPT !.panic = TRUE]
            /\ pagerErr' = pagerErr
       ELSE /\ pc' = IF r.err # NoErr \/ ~r.ok \/ pageIdx + 1 = Len(pages)
                       THEN "paged" ELSE "paging"
            /\ pagerErr' = r.err
            /\ result' = result
  /\ UNCHANGED <<op, name, ip, cloud, pages, mapOrders, fa, idVars>>

HandleFind ==
  /\ pc = "paging"
  /\ op = "findInstances"
  /\ \E x \in BOOLEAN :
       LET r == FindPage(ret, Page(pages[pageIdx + 1], x))
       IN ret' = r.list /\ EachPage(r)
  /\ UNCHANGED serverList

HandleByName ==
  /\ pc = "paging"
  /\ op \in NameOps
  /\ \E x \in BOOLEAN :
       LET r == ByNamePage(serverList, Page(pages[pageIdx + 1], x))
       IN serverList' = r.list /\ EachPage(r)
  /\ UNCHANGED ret

HandleByAddress ==
  /\ pc = "paging"
  /\ op = "getServerByAddress"
  /\ \E x \in BOOLEAN, orders \in PageOrders(pages[pageIdx + 1]) :
       LET r == ByAddressPage(serverList, Page(pages[pageIdx + 1], x), ip, orders)
       IN serverList' = r.list /\ EachPage(r)
  /\ UNCHANGED ret

\* the tail of findInstances, after EachPage has returned
ReturnFind ==
  /\ pc = "paged"
  /\ op = "findInstances"
  /\ LET r == FindReturn(pagerErr, ret)
     IN result' = [NoResult EXCEPT !.err = r.err, !.nil = r.nil, !.names = r.names]
  /\ pc' = "done"
  /\ UNCHANGED <<op, name, ip, listVars, mapOrders, fa, idVars>>

\* the tail of getServerByName, after EachPage has returned
ReturnGetServerByName ==
  /\ pc = "paged"
  /\ op = "getServerByName"
  /\ LET r == ByNameReturn(pagerErr, serverList)
     IN result' = [NoResult EXCEPT !.err = r.err, !.nil = r.nil, !.srv = r.srv]
  /\ pc' = "done"
  /\ UNCHANGED <<op, name, ip, listVars, mapOrders, fa, idVars>>

\* the tail of getServerByAddress, after EachPage has returned
ReturnGetServerByAddress ==
  /\ pc = "paged"
  /\ op = "getServerByAddress"
  /\ LET r == ByAddressReturn(pagerErr, serverList)
     IN result' = [NoResult EXCEPT !.err = r.err, !.nil = r.nil, !.srv = r.srv]
  /\ pc' = "done"
  /\ UNCHANGED <<op, name, ip, listVars, mapOrders, fa, idVars>>

\* getAddressByName once getServerByName has returned
ReturnGetAddressByName ==
  /\ pc = "paged"
  /\ op = "getAddressByName"
  /\ LET srv == ByNameReturn(pagerErr, serverList) IN
       IF srv.err # NoErr
         THEN /\ result' = [NoResult EXCEPT !.err = srv.err]
              /\ mapOrders' = mapOrders
         ELSE \E o1, o2 \in IterOrders(srv.srv[1].Addresses) :
                LET r == GetAddress(srv.srv[1], o1, o2)
                IN /\ result' = [NoResult EXCEPT !.err = r.err, !.nil = FALSE,
                                                  !.addr = r.addr]
                   /\ mapOrders' = <<o1, o2>>
  /\ pc' = "done"
  /\ UNCHANGED <<op, name, ip, listVars, fa, idVars>>

\* NodeAddresses once getServerByName has returned
ReturnNodeAddresses ==
  /\ pc = "paged"
  /\ op = "NodeAddresses"
  /\ LET srv == ByNameReturn(pagerErr, serverList) IN
       IF srv.err # NoErr
         THEN /\ result' = [NoResult EXCEPT !.err = srv.err]
              /\ mapOrders' = mapOrders
         ELSE \E o1, o2 \in IterOrders(srv.srv[1].Addresses) :
                /\ result' = [NoResult EXCEPT !.nil = FALSE,
                     !.addrs = BuildNodeAddresses(srv.srv[1], o1, o2)]
                /\ mapOrders' = <<o1, o2>>
  /\ pc' = "done"
  /\ UNCHANGED <<op, name, ip, listVars, fa, idVars>>

(* ------------------------------ findAddrs ------------------------------ *)
CallFindAddrs ==
  /\ pc = "idle"
  /\ \E blob \in NetBlobs, t \in {"fixed", "floating"} :
       \E o \in IterOrders(blob) :
         fa' = [netblob |-> blob, iptype |-> t, order |-> o,
                ret |-> FindAddrs(blob, t, o)]
  /\ op' = "findAddrs"
  /\ pc' = "done"
  /\ UNCHANGED <<name, ip, listVars, mapOrders, idVars, result>>

(* ----------------------------- newOpenStack ---------------------------- *)
\* newOpenStack up to the call of readInstanceID
CallNewOpenStack ==
  /\ pc = "idle"
  /\ op' = "newOpenStack"
  /\ \E authOK \in BOOLEAN :
       /\ svc' = [svc EXCEPT !.auth = authOK]
       /\ IF authOK THEN pc' = "readFile" /\ result' = result
          ELSE pc' = "done" /\ result' = [NoResult EXCEPT !.err = ErrAuth]
  /\ UNCHANGED <<name, ip, listVars, mapOrders, fa, file, http, httpGets, rid>>

\* readInstanceID: the marker file
ReadFile ==
  /\ pc = "readFile"
  /\ \E f \in FileReads :
       /\ file' = f
       /\ LET r == ReadLocalFile(f) IN
            IF r.go THEN pc' = "httpGet" /\ rid' = rid
            ELSE pc' = "endpoints" /\ rid' = [id |-> r.id, err |-> r.err]
  /\ UNCHANGED <<op, name, ip, listVars, mapOrders, fa, http, httpGets, svc, result>>

\* readInstanceID: the metadata server
HttpGet ==
  /\ pc = "httpGet"
  /\ \E resp \in HttpResponses :
       /\ http' = resp
       /\ rid' = ReadMetadata(resp)
  /\ httpGets' = httpGets + 1
  /\ pc' = "endpoints"
  /\ UNCHANGED <<op, name, ip, listVars, mapOrders, fa, file, svc, result>>

\* newOpenStack after readInstanceID has returned
Endpoints ==
  /\ pc = "endpoints"
  /\ \E networkOK, computeOK \in BOOLEAN :
       /\ svc' = [svc EXCEPT !.network = networkOK, !.compute = computeOK]
       /\ LET r == Construct(rid, networkOK, computeOK)
          IN result' = [NoResult EXCEPT !.err = r.err, !.nil = r.nil,
                                        !.id = r.localInstanceID]
  /\ pc' = "done"
  /\ UNCHANGED <<op, name, ip, listVars, mapOrders, fa, file, http, httpGets, rid>>

Next ==
  \/ CallFindInstances
  \/ CallGetServerByName
  \/ CallGetServerByAddress
  \/ FetchFail
  \/ HandleFind
  \/ HandleByName
  \/ HandleByAddress
  \/ ReturnFind
  \/ ReturnGetServerByName
  \/ ReturnGetServerByAddress
  \/ ReturnGetAddressByName
  \/ ReturnNodeAddresses
  \/ CallFindAddrs
  \/ CallNewOpenStack
  \/ ReadFile
  \/ HttpGet
  \/ Endpoints

Spec == Init /\ [][Next]_vars

(* ============================== properties ============================= *)
\* what the properties say of the inputs, stated without the code's loops
Range(s) == {s[i] : i \in DOMAIN s}

RECURSIVE Flatten(_)
Flatten(ss) == IF ss = <<>> THEN <<>> ELSE Head(ss) \o Flatten(Tail(ss))

CloudServers == Range(Flatten(cloud))
Failed == pagerErr \in {ErrFetch, ErrExtract}
Returned(o) == pc = "done" /\ op = o

\* the networks of a blob whose first list entry is a well-formed descriptor
\* with the given type tag
WellFormed(listblob) ==
  /\ listblob.t = "list"
  /\ Len(listblob.l) >= 1
  /\ listblob.l[1].t = "map"
  /\ {"addr", "OS-EXT-IPS:type"} \subseteq DOMAIN listblob.l[1].m
  /\ listblob.l[1].m["addr"].t = "str"
  /\ listblob.l[1].m["OS-EXT-IPS:type"].t = "str"
Tagged(blob, tag) ==
  {k \in MapKeys(blob) :
     WellFormed(blob.m[k]) /\ blob.m[k].l[1].m["OS-EXT-IPS:type"].s = tag}
AddrOf(blob, k) == blob.m[k].l[1].m["addr"].s
\* the addresses with the tag, in the order the networks were visited
TaggedAddrs(blob, tag, order) ==
  LET InTag(k) == k \in Tagged(blob, tag)
      ks == SelectSeq(order, InTag)
  IN [i \in 1..Len(ks) |-> AddrOf(blob, ks[i])]
FirstOr(addrs) == IF Len(addrs) >= 1 THEN addrs[1] ELSE ""

\* C1: getServerByName, when no page fails, returns the one ACTIVE server of
\* the cloud whose name is exactly the name asked for, ErrNotFound when there
\* is none and ErrMultipleResults when there are two or more, however the
\* servers are spread over the pages.
C1_ExactlyOneByName ==
  (Returned("getServerByName") /\ ~Failed) =>
    LET M == {x \in CloudServers : x.Status = "ACTIVE" /\ x.Name = name} IN
      /\ Cardinality(M) = 1 =>
           result.err = NoErr /\ ~result.nil /\ \E x \in M : result.srv = <<x>>
      /\ Cardinality(M) = 0 => result.err = ErrNotFound /\ result.nil
      /\ Cardinality(M) >= 2 => result.err = ErrMultipleResults /\ result.nil
      /\ result.nil <=> result.srv = <<>>

\* the one match sits on the second page, after a page that the filter left
\* empty, among other servers of the cloud
C1_Witness ==
  /\ Returned("getServerByName") /\ ~result.nil
  /\ Len(pages) = 2 /\ pages[1] = <<>> /\ cloud[1] # <<>>
  /\ Cardinality(CloudServers) = 3

\* the servers whose first fixed address may be, and those whose first fixed
\* address can only be, the address asked for
MayMatch == {x \in CloudServers : x.Status = "ACTIVE" /\
               \E k \in Tagged(x.Addresses, "fixed") : AddrOf(x.Addresses, k) = ip}
MustMatch == {x \in MayMatch :
               \A k \in Tagged(x.Addresses, "fixed") : AddrOf(x.Addresses, k) = ip}

\* C2: getServerByAddress, when no page fails, returns the server whose first
\* fixed address is the address asked for when there is exactly one,
\* ErrNotFound when there is none and ErrMultipleResults when there are
\* several, for every paged list of servers.
C2_ExactlyOneByAddress ==
  (Returned("getServerByAddress") /\ ~Failed) =>
    \/ /\ result.err = NoErr /\ ~result.nil /\ ~result.panic
       /\ \E x \in MayMatch : result.srv = <<x>> /\ MustMatch \subseteq {x}
    \/ /\ result.err = ErrNotFound /\ result.nil /\ ~result.panic
       /\ MustMatch = {}
    \/ /\ result.err = ErrMultipleResults /\ result.nil /\ ~result.panic
       /\ Cardinality(MayMatch) >= 2

\* C3: getServerByAddress never faults on a server without a fixed address.
C3_NoFaultWithoutFixed ==
  Returned("getServerByAddress") => ~result.panic

\* the server getAddressByName and NodeAddresses work on
Found == serverList[1]
FoundOne == ~Failed /\ Len(serverList) = 1

\* C4: getAddressByName returns the first non-empty of: the first fixed
\* address, the first floating address, AccessIPv4, AccessIPv6; it fails with
\* ErrNoAddressFound exactly when all four are empty.
C4_AddressPriority ==
  (Returned("getAddressByName") /\ FoundOne) =>
    LET c1 == FirstOr(TaggedAddrs(Found.Addresses, "fixed", mapOrders[1]))
        c2 == FirstOr(TaggedAddrs(Found.Addresses, "floating", mapOrders[2]))
        c == <<c1, c2, Found.AccessIPv4, Found.AccessIPv6>>
        nonEmpty == {i \in 1..4 : c[i] # ""}
    IN /\ nonEmpty = {} <=> result.err = ErrNoAddressFound
       /\ nonEmpty = {} => result.addr = ""
       /\ nonEmpty # {} =>
            /\ result.err = NoErr
            /\ \E i \in nonEmpty : result.addr = c[i] /\ \A j \in nonEmpty : i <= j

\* the lowest candidate is returned: a first fixed address that is the empty
\* string, no floating address, no AccessIPv4
C4_Witness ==
  /\ Returned("getAddressByName") /\ FoundOne
  /\ result.err = NoErr /\ result.addr = Found.AccessIPv6
  /\ Tagged(Found.Addresses, "fixed") # {}

\* C5: NodeAddresses returns the fixed addresses as InternalIP, then the
\* floating ones as ExternalIP, then the legacy fields as ExternalIP, and no
\* (kind, address) pair twice.
C5_OrderedNoDuplicates ==
  (Returned("NodeAddresses") /\ FoundOne) =>
    LET a == result.addrs
        nFixed == Cardinality(Tagged(Found.Addresses, "fixed"))
        nFloating == Cardinality(Tagged(Found.Addresses, "floating"))
    IN /\ \A i \in DOMAIN a : a[i].Type = "InternalIP" <=> i <= nFixed
       /\ \A i \in 1..nFixed :
            a[i].Address = TaggedAddrs(Found.Addresses, "fixed", mapOrders[1])[i]
       /\ \A i \in 1..nFloating :
            a[nFixed + i].Address
              = TaggedAddrs(Found.Addresses, "floating", mapOrders[2])[i]
       /\ \A i \in (nFixed + nFloating + 1)..Len(a) :
            a[i].Address \in {Found.AccessIPv4, Found.AccessIPv6}
       /\ \A i, j \in DOMAIN a : a[i] = a[j] => i = j

\* t is s without its leading and trailing white space
IsTrimOf(t, s) ==
  \E i \in 1..(Len(s) + 1), j \in 0..Len(s) :
    /\ t = SubSeq(s, i, j)
    /\ \A k \in 1..Len(s) : (k < i \/ k > j) => s[k] \in WhiteSpace
    /\ t # <<>> => t[1] \notin WhiteSpace /\ t[Len(t)] \notin WhiteSpace
FileHasID == file.ok /\ \E k \in DOMAIN file.content : file.content[k] \notin WhiteSpace
\* the members of the metadata document that name the uuid
UuidMembers == {i \in DOMAIN http.body.members : FieldOf(http.body.members[i].k) = "UUID"}
\* the uuid the metadata server answered with, <<>> when there is none
AnsweredUuid ==
  IF /\ ~http.getErr /\ http.status = StatusOK /\ ~http.readErr
     /\ http.body.valid /\ UuidMembers # {}
     /\ \A i \in UuidMembers : http.body.members[i].v.t = "str"
    THEN http.body.members[CHOOSE i \in UuidMembers : \A j \in UuidMembers : j <= i].v.s
    ELSE <<>>

\* C6: readInstanceID returns the trimmed content of the marker file, and
\* sends no request to the metadata server, whenever the file is readable
\* and not empty after trimming; only otherwise does it send the one GET,
\* and then returns the uuid if the status is 200 and the uuid is present
\* and not empty, and an error if not.
C6_FileBeforeMetadata ==
  (op = "newOpenStack" /\ pc \in {"endpoints", "done"} /\ svc.auth) =>
    /\ FileHasID =>
         httpGets = 0 /\ rid.err = NoErr /\ rid.id # <<>> /\ IsTrimOf(rid.id, file.content)
    /\ ~FileHasID =>
         /\ httpGets = 1
         /\ AnsweredUuid # <<>> => rid.err = NoErr /\ rid.id = AnsweredUuid
         /\ AnsweredUuid = <<>> => rid.err # NoErr /\ rid.id = <<>>

\* a readable file of white space only, and the uuid taken from the server
C6_Witness ==
  /\ op = "newOpenStack" /\ pc = "endpoints"
  /\ file.ok /\ file.content # <<>> /\ httpGets = 1
  /\ rid.err = NoErr /\ rid.id = UuidXYZ

\* C7: newOpenStack fails exactly when authentication or one of the two
\* endpoint resolutions fails; when they succeed the provider is returned,
\* with the identifier readInstanceID resolved, or the empty one when
\* readInstanceID failed.
C7_IdentityNotFatal ==
  Returned("newOpenStack") =>
    /\ ~result.nil <=> (svc.auth /\ svc.network /\ svc.compute)
    /\ result.nil <=> result.err # NoErr
    /\ ~result.nil => result.id = (IF rid.err = NoErr THEN rid.id ELSE <<>>)
    /\ result.nil => result.id = <<>>

\* the provider is built although readInstanceID failed
C7_Witness ==
  /\ Returned("newOpenStack") /\ ~result.nil
  /\ rid.err # NoErr /\ result.id = <<>> /\ httpGets = 1

\* the servers, on the pages requested so far, that are ACTIVE and have the
\* name asked for
SeenByName(n) ==
  {x \in Range(Flatten(SubSeq(cloud, 1, n))) : x.Status = "ACTIVE" /\ x.Name = name}
NoLaterRequest == \A j \in (pageIdx + 1)..Len(requests) : requests[j] = 0

\* C8 as stated: in both exact lookups, once the pages fetched hold a second
\* match the operation has stopped with ErrMultipleResults.
C8_BothStopAtSecondMatch ==
  /\ (op \in NameOps /\ ~Failed /\ Cardinality(SeenByName(pageIdx)) >= 2) =>
       /\ pc # "paging"
       /\ pc = "done" => result.err = ErrMultipleResults
  /\ (op = "getServerByAddress" /\ ~Failed /\ ~result.panic /\ Len(serverList) >= 2) =>
       /\ pc # "paging"
       /\ pc = "done" => result.err = ErrMultipleResults

\* C8 amended: the lookup by name stops with ErrMultipleResults at the first
\* page that brings the second match and requests no later page; the lookup
\* by address reports ErrMultipleResults only after every page was requested.
C8_OnlyByNameStopsEarly ==
  /\ (op \in NameOps /\ ~Failed /\ Cardinality(SeenByName(pageIdx)) >= 2) =>
       /\ pc # "paging"
       /\ pagerErr = ErrMultipleResults
       /\ pc = "done" => result.err = ErrMultipleResults
       /\ Cardinality(SeenByName(pageIdx - 1)) < 2
       /\ NoLaterRequest
  /\ (Returned("getServerByAddress") /\ result.err = ErrMultipleResults) =>
       \A j \in DOMAIN requests : requests[j] = 1

\* the lookup by name has stopped before the last page
C8_Witness ==
  /\ Returned("getServerByName") /\ result.err = ErrMultipleResults
  /\ pageIdx < Len(pages) /\ pages[Len(pages)] # <<>>

\* C9: findAddrs returns exactly the addr of the networks whose first list
\* entry is a well-formed descriptor with the type asked for, and nothing
\* for any other network or for a blob that is not a map.
C9_FindAddrsFirstEntryOnly ==
  Returned("findAddrs") =>
    /\ fa.ret = TaggedAddrs(fa.netblob, fa.iptype, fa.order)
    /\ Len(fa.ret) = Cardinality(Tagged(fa.netblob, fa.iptype))

\* one network gives its address, the other has the type asked for only in
\* its second entry
C9_Witness ==
  /\ Returned("findAddrs") /\ Len(fa.ret) = 1 /\ fa.iptype = "fixed"
  /\ \E k \in MapKeys(fa.netblob) :
       /\ fa.netblob.m[k] = List(<<Floating("1.2.3.4"), Fixed("10.0.0.1")>>)
       /\ k = fa.order[1]

\* C10: no listing requests a page twice; when a page fails no further page
\* is requested and the operation returns that error and nothing else.
C10_NoRetryNoPartialResult ==
  (op \in NameOps \cup {"findInstances", "getServerByAddress"}) =>
    /\ \A j \in DOMAIN requests : requests[j] <= 1
    /\ Failed => pc \in {"paged", "done"} /\ NoLaterRequest
    /\ (Failed /\ pc = "done") =>
         /\ result.err = pagerErr /\ result.nil
         /\ result.srv = <<>> /\ result.names = <<>>
         /\ result.addr = "" /\ result.addrs = <<>>

\* findInstances has read a page of names and the next page fails: the names
\* read are not returned
C10_Witness ==
  /\ Returned("findInstances") /\ pagerErr = ErrExtract
  /\ ret # <<>> /\ result.nil /\ pageIdx = 2

====
